---------------------------- MODULE Spec2Model ----------------------------
(***************************************************************************)
(* Lifecycle, event bridge and render loop of FlowingGlassEffect           *)
(* (src/components/Home.tsx), with the cover-fit mapping of its fragment   *)
(* shader.                                                                 *)
(*                                                                         *)
(* The host (browser) is single threaded: every callback of the component  *)
(* (effect body, effect cleanup, animate, onMouseMove, onResize, the       *)
(* texture loader's onLoad) runs to completion, so each one is one action. *)
(* The host's own state is modelled next to the component's: the window    *)
(* size, the resize event that awaits delivery, the listeners attached to  *)
(* window, the list of requested animation frames, the status of the image *)
(* request.                                                                *)
(*                                                                         *)
(* Numbers.  uniforms.uTime.value is a JavaScript number; it is modelled   *)
(* as the IEEE-754 double it is, with round-to-nearest-even addition.      *)
(* The shader's vec2/float arithmetic has an implementation-defined        *)
(* precision; it is modelled over exact rationals.                         *)
(***************************************************************************)
EXTENDS Integers, Sequences, FiniteSets, TLC

VARIABLES
    phase,            \* lifecycle of the effect: Uninitialized, Mounted, Unmounted
    viewport,         \* <<window.innerWidth, window.innerHeight>>
    resizeQueued,     \* a resize event has been raised and awaits delivery
    listeners,        \* event types with a listener of the component on window
    pending,          \* handles of the animation frames the host has yet to run
    nextHandle,       \* the handle the next requestAnimationFrame returns
    animationId,      \* let animationId (0: not assigned yet)
    texLoad,          \* the image request: idle, loading, loaded, failed
    canvasRef,        \* canvasRef.current: "canvas" or "null"
    canvasInContainer,\* renderer.domElement is a child of the container
    allocated,        \* render resources constructed and not disposed
    cameraAspect,     \* camera.aspect, a rational
    projAspect,       \* the aspect the projection matrix was last computed with
    rendererSize,     \* the size last given to renderer.setSize
    uTexture,         \* uniforms.uTexture.value
    uResolution,      \* uniforms.uResolution.value
    uTextureSize,     \* uniforms.uTextureSize.value
    uMouse,           \* uniforms.uMouse.value, a pair of rationals
    uTime,            \* uniforms.uTime.value, a double
    tunables,         \* the seven scalar uniforms
    frames,           \* invocations of animate so far
    draws,            \* calls of renderer.render so far
    teardownLog       \* the calls the cleanup made, in the order it made them

hostVars == <<viewport, resizeQueued, listeners, pending, nextHandle, texLoad>>
sceneVars == <<canvasRef, canvasInContainer, allocated, cameraAspect, projAspect,
               rendererSize>>
uniformVars == <<uTexture, uResolution, uTextureSize, uMouse, uTime, tunables>>
vars == <<phase, hostVars, sceneVars, uniformVars, animationId, frames, draws,
          teardownLog>>

(***************************************************************************)
(* Bounds of the model.                                                    *)
(***************************************************************************)
\* animate runs at most this many times in a behaviour
MaxFrames == 7

\* window sizes the host takes
Viewports == {<<1600, 900>>, <<900, 1600>>, <<800, 800>>}

\* pixel sizes of the image a completed load delivers
TexSizes == {<<800, 600>>, <<600, 1000>>, <<512, 512>>}

\* clientX, clientY of the pointer events the host delivers
MousePoints == {<<0, 0>>, <<800, 450>>, <<1599, 10>>}

\* the UV grid the cover-fit mapping is evaluated on: k/UVSteps, k in 0..UVSteps
UVSteps == 2

(***************************************************************************)
(* Rationals <<n, d>>, d > 0, in lowest terms.                             *)
(***************************************************************************)
Abs(n) == IF n < 0 THEN -n ELSE n

RECURSIVE GCD(_, _)
GCD(a, b) == IF b = 0 THEN a ELSE GCD(b, a % b)

Frac(n, d) ==
    LET g == GCD(Abs(n), Abs(d))
        s == IF d < 0 THEN -1 ELSE 1
    IN  <<(s * n) \div g, (s * d) \div g>>

RAdd(a, b) == Frac(a[1] * b[2] + b[1] * a[2], a[2] * b[2])
RSub(a, b) == Frac(a[1] * b[2] - b[1] * a[2], a[2] * b[2])
RMul(a, b) == Frac(a[1] * b[1], a[2] * b[2])
RDiv(a, b) == Frac(a[1] * b[2], a[2] * b[1])
RLess(a, b) == a[1] * b[2] < b[1] * a[2]
RLeq(a, b) == a[1] * b[2] <= b[1] * a[2]
RMax(a, b) == IF RLess(a, b) THEN b ELSE a
RMin(a, b) == IF RLess(a, b) THEN a ELSE b
RInt(n) == <<n, 1>>

\* a vec2 of integers as a vec2 of rationals
Vec(p) == <<RInt(p[1]), RInt(p[2])>>

(***************************************************************************)
(* IEEE-754 doubles of the range uTime takes.  Every double in             *)
(* [0.01, 2^11) is an integer multiple of 2^-59, the unit in the last      *)
(* place of 0.01; a double is kept as that integer, in three limbs         *)
(* <<l2, l1, l0>> of 20 bits (l2 is the open top limb).                    *)
(***************************************************************************)
LimbBase == 2^20

DZero == <<0, 0, 0>>

\* carries propagated upward
Limbs(l2, l1, l0) ==
    LET c0 == l0 \div LimbBase
        m1 == l1 + c0
        c1 == m1 \div LimbBase
    IN  <<l2 + c1, m1 % LimbBase, l0 % LimbBase>>

RECURSIVE BitLen(_)
BitLen(n) == IF n = 0 THEN 0 ELSE 1 + BitLen(n \div 2)

\* The integer s rounded to 53 significant bits, ties to even: what the
\* double result of an exact sum or product s is.
RoundDouble(s) ==
    LET len == IF s[1] > 0 THEN 40 + BitLen(s[1])
               ELSE IF s[2] > 0 THEN 20 + BitLen(s[2]) ELSE BitLen(s[3])
        k   == len - 53
    IN  IF k <= 0 THEN s
        ELSE LET unit == 2^k
                 rem  == s[3] % unit
                 odd  == IF k < 20 THEN (s[3] \div unit) % 2 = 1
                                   ELSE s[2] % 2 = 1
                 up   == rem * 2 > unit \/ (rem * 2 = unit /\ odd)
             IN  Limbs(s[1], s[2], s[3] - rem + (IF up THEN unit ELSE 0))

\* a + b of two doubles
DAdd(a, b) == RoundDouble(Limbs(a[1] + b[1], a[2] + b[2], a[3] + b[3]))

\* a * n of a double and a small natural
DMul(a, n) == RoundDouble(Limbs(a[1] * n, a[2] * n, a[3] * n))

\* the double nearest to 0.01: 0x147AE147AE147B * 2^-59
TimeStep == <<5242, 922746, 922747>>

(***************************************************************************)
(* Cover-fit mapping of the fragment shader.                               *)
(***************************************************************************)
\* float scale = max(s.x, s.y), s = uResolution / textureSize
CoverScaleMin(res, tex) ==
    RMin(RDiv(RInt(res[1]), RInt(tex[1])), RDiv(RInt(res[2]), RInt(tex[2])))

CoverScale(res, tex) ==
    RMax(RDiv(RInt(res[1]), RInt(tex[1])), RDiv(RInt(res[2]), RInt(tex[2])))

\* vec2 scaledSize = textureSize * scale
CoverScaledSize(res, tex) ==
    LET scale == CoverScale(res, tex)
    IN  <<RMul(RInt(tex[1]), scale), RMul(RInt(tex[2]), scale)>>

\* vec2 offset = (uResolution - scaledSize) * 0.5
CoverOffset(res, tex) ==
    LET scaledSize == CoverScaledSize(res, tex)
    IN  <<RMul(RSub(RInt(res[1]), scaledSize[1]), <<1, 2>>),
          RMul(RSub(RInt(res[2]), scaledSize[2]), <<1, 2>>)>>

\* vec2 getCoverUV(vec2 uv, vec2 textureSize), reading uniform uResolution
getCoverUV(uv, textureSize, res) ==
    IF textureSize[1] < 1 \/ textureSize[2] < 1 THEN uv
    ELSE LET scaledSize == CoverScaledSize(res, textureSize)
             offset     == CoverOffset(res, textureSize)
         IN  <<RDiv(RSub(RMul(uv[1], RInt(res[1])), offset[1]), scaledSize[1]),
               RDiv(RSub(RMul(uv[2], RInt(res[2])), offset[2]), scaledSize[2])>>

\* the UVs of the grid
UVs == {<<Frac(i, UVSteps), Frac(j, UVSteps)>> : i, j \in 0..UVSteps}

(***************************************************************************)
(* The effect: construction.                                               *)
(***************************************************************************)
\* a field that does not exist yet (before the effect body has run)
None == "none"

\* <div ref={containerRef} ...> is rendered by the component itself, so
\* containerRef.current is set when the effect body runs
ContainerAvailable == TRUE

EventTypes == {"mousemove", "resize"}
Resources == {"geometry", "material", "texture", "renderer"}

\* the seven tunable scalars of const uniforms
TunableDefaults ==
    [uParallaxStrength     |-> <<1, 10>>,
     uDistortionMultiplier |-> <<10, 1>>,
     uGlassStrength        |-> <<2, 1>>,
     uStripesFrequency     |-> <<35, 1>>,
     uGlassSmoothness      |-> <<1, 100000>>,
     uEdgePadding          |-> <<1, 10>>,
     uFlowSpeed            |-> <<1, 100>>]

Init ==
    /\ phase = "Uninitialized"
    /\ viewport \in Viewports
    /\ resizeQueued = FALSE
    /\ listeners = {}
    /\ pending = {}
    /\ nextHandle = 1
    /\ animationId = 0
    /\ texLoad = "idle"
    /\ canvasRef = "null"
    /\ canvasInContainer = FALSE
    /\ allocated = {}
    /\ cameraAspect = None
    /\ projAspect = None
    /\ rendererSize = None
    /\ uTexture = None
    /\ uResolution = None
    /\ uTextureSize = None
    /\ uMouse = None
    /\ uTime = None
    /\ tunables = None
    /\ frames = 0
    /\ draws = 0
    /\ teardownLog = <<>>

(***************************************************************************)
(* function animate(): requests the next frame, advances uTime, draws.     *)
(* pend, time, nframes, ndraws are the values it starts from.              *)
(***************************************************************************)
animateStaleHandle(pend, time, nframes, ndraws) ==
    /\ pending' = pend \cup {nextHandle}
    /\ animationId' = IF animationId = 0 THEN nextHandle ELSE animationId
    /\ nextHandle' = nextHandle + 1
    /\ uTime' = DAdd(time, TimeStep)
    /\ draws' = ndraws + 1
    /\ frames' = nframes + 1

animateNoReschedule(pend, time, nframes, ndraws) ==
    /\ pending' = pend
    /\ animationId' = animationId
    /\ nextHandle' = nextHandle
    /\ uTime' = DAdd(time, TimeStep)
    /\ draws' = ndraws + 1
    /\ frames' = nframes + 1

animateDrawBeforeAndAfter(pend, time, nframes, ndraws) ==
    /\ pending' = pend \cup {nextHandle}
    /\ animationId' = nextHandle
    /\ nextHandle' = nextHandle + 1
    /\ uTime' = DAdd(time, TimeStep)
    /\ draws' = ndraws + 2
    /\ frames' = nframes + 1

animate(pend, time, nframes, ndraws) ==
    /\ pending' = pend \cup {nextHandle}
    /\ animationId' = nextHandle
    /\ nextHandle' = nextHandle + 1
    /\ uTime' = DAdd(time, TimeStep)
    /\ draws' = ndraws + 1
    /\ frames' = nframes + 1

\* The effect body: Uninitialized -> Mounted.
Mount ==
    /\ phase = "Uninitialized"
    /\ ContainerAvailable
    /\ phase' = "Mounted"
    /\ cameraAspect' = Frac(viewport[1], viewport[2])
    /\ projAspect' = Frac(viewport[1], viewport[2])
    /\ rendererSize' = viewport
    /\ canvasRef' = "canvas"
    /\ canvasInContainer' = TRUE
    /\ allocated' = Resources
    /\ texLoad' = "loading"
    /\ uTexture' = "texture"
    /\ uResolution' = viewport
    /\ uTextureSize' = <<1, 1>>
    /\ uMouse' = <<Frac(viewport[1], 2), Frac(viewport[2], 2)>>
    /\ tunables' = TunableDefaults
    /\ listeners' = listeners \cup {"mousemove", "resize"}
    /\ animate(pending, DZero, 0, 0)
    /\ UNCHANGED <<viewport, resizeQueued, teardownLog>>

(***************************************************************************)
(* The host's events and the component's handlers.                         *)
(***************************************************************************)
\* The host runs a requested frame: the callback leaves the list and runs.
Frame(h) ==
    /\ h \in pending
    /\ frames < MaxFrames
    /\ animate(pending \ {h}, uTime, frames, draws)
    /\ UNCHANGED <<phase, viewport, resizeQueued, listeners, texLoad, sceneVars,
                   uTexture, uResolution, uTextureSize, uMouse, tunables,
                   teardownLog>>

\* function onMouseMove(event)
onMouseMove(p) ==
    /\ uMouse' = <<RInt(p[1]), RInt(p[2])>>
    /\ UNCHANGED <<uTexture, uResolution, uTextureSize, uTime, tunables>>

\* The host delivers a pointer move to the listeners attached to window.
MouseMove(p) ==
    /\ IF "mousemove" \in listeners THEN onMouseMove(p)
       ELSE UNCHANGED uniformVars
    /\ UNCHANGED <<phase, hostVars, sceneVars, animationId, frames, draws,
                   teardownLog>>

\* The window takes a new size; the host raises a resize event.
WindowResize(v) ==
    /\ v # viewport
    /\ viewport' = v
    /\ resizeQueued' = TRUE
    /\ UNCHANGED <<phase, listeners, pending, nextHandle, texLoad, sceneVars,
                   uniformVars, animationId, frames, draws, teardownLog>>

\* function onResize()
onResizeNoUniform ==
    /\ cameraAspect' = Frac(viewport[1], viewport[2])
    /\ projAspect' = Frac(viewport[1], viewport[2])
    /\ rendererSize' = viewport
    /\ uResolution' = uResolution

onResize ==
    /\ cameraAspect' = Frac(viewport[1], viewport[2])
    /\ projAspect' = Frac(viewport[1], viewport[2])
    /\ rendererSize' = viewport
    /\ uResolution' = viewport

\* The host delivers the resize event to the listeners attached to window.
DispatchResize ==
    /\ resizeQueued
    /\ resizeQueued' = FALSE
    /\ IF "resize" \in listeners THEN onResize
       ELSE UNCHANGED <<cameraAspect, projAspect, rendererSize, uResolution>>
    /\ UNCHANGED <<phase, viewport, listeners, pending, nextHandle, texLoad,
                   canvasRef, canvasInContainer, allocated, uTexture,
                   uTextureSize, uMouse, uTime, tunables, animationId, frames,
                   draws, teardownLog>>

\* (tex) => { uniforms.uTextureSize.value.set(tex.image.width, tex.image.height) }
onTextureLoadIntoResolution(size) ==
    /\ uResolution' = size
    /\ UNCHANGED <<uTexture, uTextureSize, uMouse, uTime, tunables>>

onTextureLoad(size) ==
    /\ uTextureSize' = size
    /\ UNCHANGED <<uTexture, uResolution, uMouse, uTime, tunables>>

\* The image arrives: the loader calls the onLoad callback it was given.
TextureLoaded(size) ==
    /\ texLoad = "loading"
    /\ texLoad' = "loaded"
    /\ onTextureLoad(size)
    /\ UNCHANGED <<phase, viewport, resizeQueued, listeners, pending, nextHandle,
                   sceneVars, animationId, frames, draws, teardownLog>>

\* The image request fails: load was given no onError callback.
TextureFailed ==
    /\ texLoad = "loading"
    /\ texLoad' = "failed"
    /\ UNCHANGED <<phase, viewport, resizeQueued, listeners, pending, nextHandle,
                   sceneVars, uniformVars, animationId, frames, draws,
                   teardownLog>>

(***************************************************************************)
(* The effect's cleanup: Mounted -> Unmounted.                             *)
(***************************************************************************)
Call(op, arg) == [op |-> op, arg |-> arg]

CleanupStepsDisposeFirst ==
    <<Call("dispose", "geometry"),
      Call("dispose", "material"),
      Call("dispose", "texture"),
      Call("dispose", "renderer"),
      Call("removeEventListener", "mousemove"),
      Call("removeEventListener", "resize"),
      Call("cancelAnimationFrame", "animationId"),
      Call("removeChild", "canvas")>>

CleanupStepsNoTextureDispose ==
    <<Call("removeEventListener", "mousemove"),
      Call("removeEventListener", "resize"),
      Call("cancelAnimationFrame", "animationId"),
      Call("removeChild", "canvas"),
      Call("dispose", "geometry"),
      Call("dispose", "material"),
      Call("dispose", "renderer")>>

\* the statements of the cleanup function, in program order
CleanupSteps ==
    <<Call("removeEventListener", "mousemove"),
      Call("removeEventListener", "resize"),
      Call("cancelAnimationFrame", "animationId"),
      Call("removeChild", "canvas"),
      Call("dispose", "geometry"),
      Call("dispose", "material"),
      Call("dispose", "texture"),
      Call("dispose", "renderer")>>

\* if (canvasRef.current && container) guards removeChild
StepRuns(step) ==
    step.op = "removeChild" => (canvasRef # "null" /\ ContainerAvailable)

\* the calls the cleanup makes, in order
CleanupCalls == SelectSeq(CleanupSteps, StepRuns)

CallsOf(calls, op) == {calls[i].arg : i \in {j \in 1..Len(calls) : calls[j].op = op}}

Unmount ==
    /\ phase = "Mounted"
    /\ phase' = "Unmounted"
    /\ teardownLog' = CleanupCalls
    /\ listeners' = listeners \ CallsOf(CleanupCalls, "removeEventListener")
    /\ pending' = IF CallsOf(CleanupCalls, "cancelAnimationFrame") # {}
                  THEN pending \ {animationId} ELSE pending
    /\ canvasInContainer' = IF CallsOf(CleanupCalls, "removeChild") # {}
                            THEN FALSE ELSE canvasInContainer
    /\ allocated' = allocated \ CallsOf(CleanupCalls, "dispose")
    /\ UNCHANGED <<viewport, resizeQueued, nextHandle, texLoad, canvasRef,
                   cameraAspect, projAspect, rendererSize, uniformVars,
                   animationId, frames, draws>>

Next ==
    \/ Mount
    \/ \E h \in pending : Frame(h)
    \/ \E p \in MousePoints : MouseMove(p)
    \/ \E v \in Viewports : WindowResize(v)
    \/ DispatchResize
    \/ \E size \in TexSizes : TextureLoaded(size)
    \/ TextureFailed
    \/ Unmount

Spec == Init /\ [][Next]_vars

\* The host runs every requested frame that stays requested.
FairSpec == Spec /\ WF_vars(\E h \in pending : Frame(h))

(***************************************************************************)
(* Properties.                                                             *)
(***************************************************************************)
\* the group of the teardown contract a call of the cleanup belongs to
Group(call) ==
    CASE call.op = "removeEventListener" -> 1
      [] call.op = "cancelAnimationFrame" -> 2
      [] call.op = "removeChild" -> 3
      [] call.op = "dispose" -> 4

\* uTime after n invocations of animate: n successive double additions
RECURSIVE StepSum(_)
StepSum(n) == IF n = 0 THEN DZero ELSE DAdd(StepSum(n - 1), TimeStep)

\* C1: the cleanup detaches both listeners, then cancels the frame request,
\* then detaches the canvas, then disposes geometry, material, texture and
\* renderer; no call of a later group precedes a call of an earlier group.
C1_TeardownOrder ==
    /\ phase # "Unmounted" => teardownLog = <<>>
    /\ phase = "Unmounted" =>
        /\ \A i, j \in 1..Len(teardownLog) :
               i < j => Group(teardownLog[i]) <= Group(teardownLog[j])
        /\ CallsOf(teardownLog, "removeEventListener") = EventTypes
        /\ CallsOf(teardownLog, "cancelAnimationFrame") = {"animationId"}
        /\ CallsOf(teardownLog, "removeChild") = {"canvas"}
        /\ CallsOf(teardownLog, "dispose") = Resources

C1_Witness ==
    /\ phase = "Unmounted"
    /\ Len(teardownLog) = 8
    /\ frames > 2

\* C2: while mounted the one outstanding frame request is the one whose
\* handle animationId holds, so the cleanup cancels it: after unmount no
\* request is left, no draw call is issued and uTime is not advanced.
C2_CancelStopsLoop ==
    [][/\ phase' = "Mounted" => pending' = {animationId'}
       /\ phase' = "Unmounted" => pending' = {}
       /\ phase = "Unmounted" =>
              draws' = draws /\ frames' = frames /\ uTime' = uTime]_vars

C2_Witness ==
    /\ phase = "Unmounted"
    /\ pending = {}
    /\ frames > 2
    /\ texLoad = "loaded"
    /\ uMouse = <<<<1599, 1>>, <<10, 1>>>>
    /\ uResolution # viewport

\* C3: after unmount no listener of the component is attached, every render
\* resource allocated at mount is disposed and the canvas is no child of the
\* container.
C3_NothingLeftAfterUnmount ==
    phase = "Unmounted" =>
        /\ listeners = {}
        /\ allocated = {}
        /\ ~canvasInContainer

C3_Witness ==
    /\ phase = "Unmounted"
    /\ listeners = {}
    /\ allocated = {}
    /\ ~canvasInContainer
    /\ canvasRef = "canvas"
    /\ texLoad = "failed"
    /\ frames > 1

\* C4: mounted, with no resize event awaiting delivery, uResolution is the
\* window size (w, h), camera.aspect is w/h and the projection was computed
\* with it.
C4_ResolutionTracksViewport ==
    (phase = "Mounted" /\ ~resizeQueued) =>
        /\ uResolution = viewport
        /\ cameraAspect = Frac(viewport[1], viewport[2])
        /\ projAspect = cameraAspect
        /\ rendererSize = viewport

\* mounted at 800x800 (uMouse still at its centre), resized to 1600x900, handled
C4_Witness ==
    /\ phase = "Mounted"
    /\ ~resizeQueued
    /\ uMouse = <<<<400, 1>>, <<400, 1>>>>
    /\ viewport = <<1600, 900>>
    /\ uResolution = <<1600, 900>>
    /\ cameraAspect = <<16, 9>>

\* C5 as stated: uTime is the fixed step times the number of frames run,
\* which is the number of draw calls.
C5_TimeIsStepTimesFrames ==
    phase # "Uninitialized" =>
        /\ draws = frames
        /\ uTime = DMul(TimeStep, frames)

\* C5, amended: every invocation of animate adds the step once and draws
\* once, so uTime is the sum of frames successive double additions of the
\* step and draws = frames; no other event changes uTime.
C5_TimeIsSumOfSteps ==
    phase # "Uninitialized" =>
        /\ draws = frames
        /\ frames >= 1
        /\ uTime = StepSum(frames)

\* six frames: the sum of six steps is not six times the step
C5_Witness ==
    /\ phase = "Mounted"
    /\ frames = 6
    /\ draws = 6
    /\ uTime = <<31457, 293601, 293604>>
    /\ DMul(TimeStep, 6) = <<31457, 293601, 293600>>
    /\ texLoad = "loaded"

\* C6: while mounted exactly one frame is requested, a further frame always
\* eventually runs (up to the bound on frames) unless the component unmounts,
\* and the requests run out only by the cleanup's cancellation.
C6_LoopRunsUntilUnmount ==
    /\ [](phase = "Mounted" => Cardinality(pending) = 1)
    /\ [][(pending # {} /\ pending' = {}) =>
              (phase = "Mounted" /\ phase' = "Unmounted")]_vars
    /\ \A n \in 1..(MaxFrames - 1) :
           (phase = "Mounted" /\ frames = n)
               ~> (frames = n + 1 \/ phase = "Unmounted")

C6_Witness ==
    /\ phase = "Mounted"
    /\ frames = MaxFrames
    /\ Cardinality(pending) = 1
    /\ texLoad = "loaded"
    /\ uMouse = <<<<0, 1>>, <<0, 1>>>>
    /\ resizeQueued

\* C7 as stated: after initialization only uTime and uMouse change, and
\* uTextureSize by the texture load; uTexture, uResolution and the seven
\* scalars do not.
C7_OnlyTimeAndMouseChange ==
    [][phase # "Uninitialized" =>
           /\ uTexture' = uTexture
           /\ uResolution' = uResolution
           /\ tunables' = tunables
           /\ (uTextureSize' # uTextureSize =>
                  (texLoad = "loading" /\ texLoad' = "loaded"))]_vars

\* C7, amended: after initialization uTime changes on every frame, uMouse by
\* pointer moves, uResolution by every delivered resize event (to the window
\* size) and uTextureSize by the texture load; uTexture and the seven
\* scalars do not change.
C7_TimeMouseResolutionChange ==
    [][phase # "Uninitialized" =>
           /\ uTexture' = uTexture
           /\ tunables' = tunables
           /\ (uTextureSize' # uTextureSize =>
                  (texLoad = "loading" /\ texLoad' = "loaded"))
           /\ (uResolution' # uResolution =>
                  (resizeQueued /\ ~resizeQueued' /\ uResolution' = viewport))
           /\ ((resizeQueued /\ ~resizeQueued' /\ phase = "Mounted") =>
                  uResolution' = viewport)
           /\ (frames' # frames <=> uTime' # uTime)
           /\ (uMouse' # uMouse =>
                  (/\ uMouse' \in {Vec(p) : p \in MousePoints}
                   /\ UNCHANGED <<uTexture, uResolution, uTextureSize, uTime,
                                  tunables>>))]_vars

\* every kind of write has happened: resize handled after mount at 900x1600,
\* texture loaded, pointer moved, frames run
C7_Witness ==
    /\ phase = "Mounted"
    /\ uResolution = <<800, 800>>
    /\ rendererSize = <<800, 800>>
    /\ uTextureSize = <<600, 1000>>
    /\ uMouse = <<<<800, 1>>, <<450, 1>>>>
    /\ frames > 3
    /\ tunables = TunableDefaults
    /\ uTexture = "texture"

\* C8: while the texture has not loaded uTextureSize is (1, 1), and with it
\* getCoverUV returns every UV unchanged, whatever the viewport.
C8_UnloadedTextureIsIdentity ==
    (phase # "Uninitialized" /\ texLoad # "loaded") =>
        /\ uTextureSize = <<1, 1>>
        /\ \A uv \in UVs : getCoverUV(uv, uTextureSize, uResolution) = uv

C10_NoWriteAfterUnmount ==
    [][phase = "Unmounted" => UNCHANGED uniformVars]_vars

=============================================================================
